---- MODULE Spec2Model ----
(***************************************************************************)
(* Model of the two FASTA header rewriting scripts of orr_scripts:         *)
(*   rename_nt.py              (Pipeline A, gene id from "GN=" marker)      *)
(*   seqid_to_species_name.py  (Pipeline B, rename table from a .csv file)  *)
(* A string is a sequence of one-character strings, so that splitting,     *)
(* replacing and concatenating are computed character by character.        *)
(***************************************************************************)
EXTENDS Integers, Sequences, FiniteSets, TLC

VARIABLES prog, pc, fasta, csvfile, rowpos, new_names, nread, records, i,
          record, seqid, out

vars == <<prog, pc, fasta, csvfile, rowpos, new_names, nread, records, i,
          record, seqid, out>>

----------------------------------------------------------------------------
(* Bounds of the checked input spaces *)

MaxPieces == 5      \* pieces of a description, gene id specification
MaxIdLen == 3       \* characters of a FASTA identifier, Pipeline B
MaxKeyLen == 2      \* characters of a rename-table key, Pipeline B
MaxRecsB == 1       \* FASTA records, Pipeline B with all identifiers
MaxRowsB == 2       \* data rows, Pipeline B with all identifiers
MaxValLen == 2      \* characters of a new_display_name field
MaxRows == 2        \* data rows, rename table specification
MaxRecs == 3        \* FASTA records, both pipelines together

----------------------------------------------------------------------------
(* Python string operations *)

RECURSIVE SplitFrom(_, _, _, _)
SplitFrom(s, sep, start, j) ==
    IF j + Len(sep) - 1 > Len(s)
    THEN << SubSeq(s, start, Len(s)) >>
    ELSE IF SubSeq(s, j, j + Len(sep) - 1) = sep
         THEN << SubSeq(s, start, j - 1) >>
              \o SplitFrom(s, sep, j + Len(sep), j + Len(sep))
         ELSE SplitFrom(s, sep, start, j + 1)

\* str.split(sep): the segments between the occurrences of sep, found
\* left to right without overlap
split(s, sep) == SplitFrom(s, sep, 1, 1)

RECURSIVE ReplaceFrom(_, _, _, _)
ReplaceFrom(s, old, new, j) ==
    IF j > Len(s)
    THEN << >>
    ELSE IF j + Len(old) - 1 <= Len(s) /\ SubSeq(s, j, j + Len(old) - 1) = old
         THEN new \o ReplaceFrom(s, old, new, j + Len(old))
         ELSE << s[j] >> \o ReplaceFrom(s, old, new, j + 1)

\* str.replace(old, new)
replace(s, old, new) == ReplaceFrom(s, old, new, 1)

Marker == << "G", "N", "=" >>
Space == << " " >>
Slash == << "/" >>
Underscore == << "_" >>

----------------------------------------------------------------------------
(* Pipeline A: rename_nt.py *)

\* the variant that takes the segment after the first marker
geneid_first(description) ==
    LET parts == split(description, Marker)
    IN  split(parts[IF Len(parts) > 1 THEN 2 ELSE 1], Space)[1]

\* the variant that keeps the whole description when there is no marker
geneid_whole(description) ==
    LET parts == split(description, Marker)
    IN  IF Len(parts) = 1 THEN description
        ELSE split(parts[Len(parts)], Space)[1]

\* record.description.split("GN=")[-1].split(" ")[0]
geneid(description) ==
    LET parts == split(description, Marker)
    IN  split(parts[Len(parts)], Space)[1]

----------------------------------------------------------------------------
(* Records as Bio.SeqIO hands them to the scripts *)

WS == { " ", "\t" }

RECURSIVE rstrip(_)
rstrip(s) ==
    IF s = << >> \/ s[Len(s)] \notin WS
    THEN s
    ELSE rstrip(SubSeq(s, 1, Len(s) - 1))

RECURSIVE lstrip(_)
lstrip(s) ==
    IF s = << >> \/ s[1] \notin WS
    THEN s
    ELSE lstrip(SubSeq(s, 2, Len(s)))

RECURSIVE word(_)
word(s) ==
    IF s = << >> \/ s[1] \in WS
    THEN << >>
    ELSE << s[1] >> \o word(SubSeq(s, 2, Len(s)))

\* One entry of a FASTA file, line (the header line after ">") and seq,
\* as the record SeqIO.parse yields for it: the description is the title,
\* the identifier its first word.
SeqRecord(entry) ==
    LET title == rstrip(entry.line)
    IN  [ id |-> word(lstrip(title)), description |-> title, seq |-> entry.seq ]

----------------------------------------------------------------------------
(* Pipeline B: seqid_to_species_name.py *)

\* row[1].replace(" ", "_")
normalize(value) == replace(value, Space, Underscore)

\* the variant in which an earlier row of the same key is kept
store_name_first(names, key, value) ==
    [ k \in DOMAIN names \cup { key } |->
        IF k \in DOMAIN names THEN names[k] ELSE value ]

\* new_names[key] = value
store_name(names, key, value) ==
    [ k \in DOMAIN names \cup { key } |->
        IF k = key THEN value ELSE names[k] ]

\* the variant that passes over a row of fewer than two fields
load_row_skip(names, row) ==
    IF Len(row) < 2
    THEN [ raised |-> FALSE, names |-> names ]
    ELSE [ raised |-> FALSE,
           names |-> store_name(names, row[1], normalize(row[2])) ]

\* The body of the loop over the rows: row[1] (row[0] for a row of no
\* field at all) raises IndexError on a row of fewer than two fields.
load_row(names, row) ==
    IF Len(row) < 2
    THEN [ raised |-> TRUE, names |-> names ]
    ELSE [ raised |-> FALSE,
           names |-> store_name(names, row[1], normalize(row[2])) ]

\* the variant that looks the whole identifier up
lookup_key_whole(id) == id

\* record.id.split("/")[0]
lookup_key(id) == split(id, Slash)[1]

\* the variant that records the stripped identifier in the description
relabel_stripped(rec, sid, names) ==
    IF sid \in DOMAIN names
    THEN [ rec EXCEPT !.description = sid \o Space \o rec.description,
                      !.id = names[sid] ]
    ELSE rec

\* the variant that strips the range of a record it does not rename
relabel_strip_miss(rec, sid, names) ==
    IF sid \in DOMAIN names
    THEN [ rec EXCEPT !.description = rec.id \o Space \o rec.description,
                      !.id = names[sid] ]
    ELSE [ rec EXCEPT !.id = sid ]

\* The body of "if seqid in new_names": the description is built from the
\* identifier before the identifier is overwritten.
relabel(rec, sid, names) ==
    IF sid \in DOMAIN names
    THEN [ rec EXCEPT !.description = rec.id \o Space \o rec.description,
                      !.id = names[sid] ]
    ELSE rec

\* the variant with the yield inside the if
yielded_hit_only(hit) == hit

\* "yield record" follows the if, so every record is yielded
yielded(hit) == TRUE

----------------------------------------------------------------------------
(* Pipeline A, statement by statement *)

\* records = list(SeqIO.parse(handle, "fasta")): one more record parsed
A_ReadRecord ==
    /\ prog = "A" /\ pc = "A_read" /\ nread < Len(fasta)
    /\ records' = Append(records, SeqRecord(fasta[nread + 1]))
    /\ nread' = nread + 1
    /\ UNCHANGED << prog, pc, fasta, csvfile, rowpos, new_names, i, record,
                    seqid, out >>

\* the list is complete, the loop over the records starts
A_EndRead ==
    /\ prog = "A" /\ pc = "A_read" /\ nread = Len(fasta)
    /\ pc' = "A_fix"
    /\ UNCHANGED << prog, fasta, csvfile, rowpos, new_names, nread, records,
                    i, record, seqid, out >>

\* one turn of "for record in records": record.id = geneid
A_FixHeader ==
    /\ prog = "A" /\ pc = "A_fix" /\ i < Len(records)
    /\ records' = [ records EXCEPT
                      ![i + 1].id = geneid(records[i + 1].description) ]
    /\ i' = i + 1
    /\ UNCHANGED << prog, pc, fasta, csvfile, rowpos, new_names, nread,
                    record, seqid, out >>

\* the loop is over, the output file is opened
A_EndFix ==
    /\ prog = "A" /\ pc = "A_fix" /\ i = Len(records)
    /\ pc' = "A_write"
    /\ UNCHANGED << prog, fasta, csvfile, rowpos, new_names, nread, records,
                    i, record, seqid, out >>

\* SeqIO.write(records, handle, "fasta"): one more record written
A_WriteRecord ==
    /\ prog = "A" /\ pc = "A_write" /\ Len(out) < Len(records)
    /\ out' = Append(out, records[Len(out) + 1])
    /\ UNCHANGED << prog, pc, fasta, csvfile, rowpos, new_names, nread,
                    records, i, record, seqid >>

\* every record is written, the script ends
A_EndWrite ==
    /\ prog = "A" /\ pc = "A_write" /\ Len(out) = Len(records)
    /\ pc' = "done"
    /\ UNCHANGED << prog, fasta, csvfile, rowpos, new_names, nread, records,
                    i, record, seqid, out >>

NextA ==
    \/ A_ReadRecord
    \/ A_EndRead
    \/ A_FixHeader
    \/ A_EndFix
    \/ A_WriteRecord
    \/ A_EndWrite

----------------------------------------------------------------------------
(* Pipeline B, statement by statement *)

\* next(reader): the first row is dropped; a file of no row at all makes
\* next raise StopIteration
B_SkipHeader ==
    /\ prog = "B" /\ pc = "B_header"
    /\ IF Len(csvfile) = 0
       THEN pc' = "error" /\ rowpos' = rowpos
       ELSE pc' = "B_rows" /\ rowpos' = 1
    /\ UNCHANGED << prog, fasta, csvfile, new_names, nread, records, i,
                    record, seqid, out >>

\* one turn of "for row in reader"
B_ReadRow ==
    /\ prog = "B" /\ pc = "B_rows" /\ rowpos < Len(csvfile)
    /\ LET loaded == load_row(new_names, csvfile[rowpos + 1])
       IN  IF loaded.raised
           THEN pc' = "error" /\ UNCHANGED << rowpos, new_names >>
           ELSE /\ pc' = pc
                /\ rowpos' = rowpos + 1
                /\ new_names' = loaded.names
    /\ UNCHANGED << prog, fasta, csvfile, nread, records, i, record, seqid,
                    out >>

\* parse_csv returns; main sets up the two generators and calls
\* SeqIO.write, which has read nothing yet
B_EndRows ==
    /\ prog = "B" /\ pc = "B_rows" /\ rowpos = Len(csvfile)
    /\ pc' = "B_pull"
    /\ UNCHANGED << prog, fasta, csvfile, rowpos, new_names, nread, records,
                    i, record, seqid, out >>

\* the variant in which the parser runs ahead of the writer
B_Pull_ahead ==
    /\ prog = "B" /\ pc \in { "B_pull", "B_yield" } /\ nread < Len(fasta)
    /\ record' = << SeqRecord(fasta[nread + 1]) >>
    /\ nread' = nread + 1
    /\ pc' = "B_update"
    /\ UNCHANGED << prog, fasta, csvfile, rowpos, new_names, records, i,
                    seqid, out >>

\* The writer asks update_sequences for its next record, whose for loop
\* asks the parser for one.
B_Pull ==
    /\ prog = "B" /\ pc = "B_pull" /\ nread < Len(fasta)
    /\ record' = << SeqRecord(fasta[nread + 1]) >>
    /\ nread' = nread + 1
    /\ pc' = "B_update"
    /\ UNCHANGED << prog, fasta, csvfile, rowpos, new_names, records, i,
                    seqid, out >>

\* the body of the loop of update_sequences, up to the yield
B_Update ==
    /\ prog = "B" /\ pc = "B_update"
    /\ LET sid == lookup_key(record[1].id)
       IN  /\ seqid' = << sid >>
           /\ record' = << relabel(record[1], sid, new_names) >>
           /\ pc' = IF yielded(sid \in DOMAIN new_names)
                    THEN "B_yield" ELSE "B_pull"
    /\ UNCHANGED << prog, fasta, csvfile, rowpos, new_names, nread, records,
                    i, out >>

\* the yielded record reaches SeqIO.write, which writes it
B_WriteRecord ==
    /\ prog = "B" /\ pc = "B_yield"
    /\ out' = Append(out, record[1])
    /\ record' = << >>
    /\ pc' = "B_pull"
    /\ UNCHANGED << prog, fasta, csvfile, rowpos, new_names, nread, records,
                    i, seqid >>

\* the parser is exhausted: both generators end, SeqIO.write returns
B_EndWrite ==
    /\ prog = "B" /\ pc = "B_pull" /\ nread = Len(fasta)
    /\ pc' = "done"
    /\ UNCHANGED << prog, fasta, csvfile, rowpos, new_names, nread, records,
                    i, record, seqid, out >>

NextB ==
    \/ B_SkipHeader
    \/ B_ReadRow
    \/ B_EndRows
    \/ B_Pull
    \/ B_Update
    \/ B_WriteRecord
    \/ B_EndWrite

Next == NextA \/ NextB

----------------------------------------------------------------------------
(* Input files *)

\* the sequences over S of lo to hi elements
Strs(S, lo, hi) == UNION { [ 1..m -> S ] : m \in lo..hi }

RECURSIVE concat(_)
concat(ps) == IF ps = << >> THEN << >> ELSE Head(ps) \o concat(Tail(ps))

Pieces == { Marker, << "G" >>, << "=" >>, << "a" >>, << " " >>, << "\t" >> }

\* header lines for the gene id: every concatenation of MaxPieces pieces
GeneLines == { concat(ps) : ps \in Strs(Pieces, 0, MaxPieces) }

IdChars == { "k", "/" }

Rest == { << >>, << " ", "d" >> }

\* header lines for Pipeline B: an identifier, then nothing or a text
IdLines == { id \o r : id \in Strs(IdChars, 0, MaxIdLen), r \in Rest }

HeaderRow == << << "s", "e", "q", "i", "d" >>, << "n", "a", "m", "e" >> >>

NameRows ==
    { << key, value >> : key \in Strs(IdChars, 0, MaxKeyLen),
                         value \in { << "h" >>, << "h", " ", "w" >> } }

CsvKeys == { << "k" >>, << "q" >> }

ValChars == { "h", " ", "\t" }

\* rows of no field, of one, of two and of three
CsvRows ==
    { << >> }
    \cup { << key >> : key \in CsvKeys }
    \cup { << key, value >> : key \in CsvKeys,
                              value \in Strs(ValChars, 0, MaxValLen) }
    \cup { << key, << "h" >>, << "h" >> >> : key \in CsvKeys }

\* first rows: no field, one field, and one that reads as a data row
FirstRows == { << >>, << << "k" >> >>, << << "k" >>, << "H" >> >> }

Entries(lines, seqs) == [ line : lines, seq : seqs ]

Start(p, first, csv, fa) ==
    /\ prog = p
    /\ pc = first
    /\ csvfile = csv
    /\ fasta = fa
    /\ rowpos = 0
    /\ new_names = << >>
    /\ nread = 0
    /\ records = << >>
    /\ i = 0
    /\ record = << >>
    /\ seqid = << >>
    /\ out = << >>

\* Pipeline A on one record of any header line of GeneLines
InitGene ==
    \E l \in GeneLines :
        Start("A", "A_read", << >>, << [ line |-> l, seq |-> "AC" ] >>)

\* Pipeline B on every identifier and every key, few rows and records
InitB ==
    \E rows \in Strs(NameRows, 0, MaxRowsB),
       fa \in Strs(Entries(IdLines, { "AC" }), 0, MaxRecsB) :
        Start("B", "B_header", << HeaderRow >> \o rows, fa)

\* Pipeline B on every rename-table file, few records
InitCsv ==
    \E csv \in { << >> } \cup { << h >> \o rows :
                     h \in FirstRows, rows \in Strs(CsvRows, 0, MaxRows) },
       fa \in Strs(Entries({ << "k" >>, << "q", "/", "k", " ", "d" >> },
                           { "AC" }), 0, 1) :
        Start("B", "B_header", csv, fa)

\* both pipelines on files of up to MaxRecs records
Init ==
    \/ \E fa \in Strs(Entries({ << "a" >>, << "G", "N", "=", "a" >>,
                    << "a", " ", "G", "N", "=", "a", " ", "a" >> },
                    { "AC", "GT" }), 0, MaxRecs) :
          Start("A", "A_read", << >>, fa)
    \/ \E csv \in { << >>, << HeaderRow >>, << HeaderRow, << >> >>,
                     << HeaderRow, << << "k" >>, << "h", " ", "w" >> >> >> },
          fa \in Strs(Entries({ << "k", " ", "d" >>, << "q" >> },
                              { "AC", "GT" }), 0, MaxRecs) :
          Start("B", "B_header", csv, fa)

Spec == Init /\ [][Next]_vars

SpecGene == InitGene /\ [][NextA]_vars

SpecB == InitB /\ [][NextB]_vars

SpecCsv == InitCsv /\ [][NextB]_vars

----------------------------------------------------------------------------
(* What the properties speak of, stated from the text and not from split *)

\* the k-th record of the input file, as parsed
Input(k) == SeqRecord(fasta[k])

Has(s, c) == \E j \in 1..Len(s) : s[j] = c

\* s up to, and without, its first character of the set C; s if none
UpTo(s, C) ==
    IF \E j \in 1..Len(s) : s[j] \in C
    THEN LET p == CHOOSE j \in 1..Len(s) :
                      s[j] \in C /\ \A m \in 1..(j - 1) : s[m] \notin C
         IN  SubSeq(s, 1, p - 1)
    ELSE s

MarkerAt(d, j) == j + 2 <= Len(d) /\ SubSeq(d, j, j + 2) = Marker

MarkerPlaces(d) == { j \in 1..Len(d) : MarkerAt(d, j) }

\* the text after the last "GN=" of d
AfterLast(d) ==
    LET p == CHOOSE j \in MarkerPlaces(d) : \A m \in MarkerPlaces(d) : m <= j
    IN  SubSeq(d, p + 3, Len(d))

\* the data rows loaded so far
Loaded == 2..rowpos

\* the last loaded row of a key
LastRow(key) ==
    CHOOSE j \in Loaded :
        csvfile[j][1] = key /\ \A m \in Loaded : csvfile[m][1] = key => m <= j

Underscored(v) == [ n \in 1..Len(v) |-> IF v[n] = " " THEN "_" ELSE v[n] ]

Malformed == \E j \in 2..Len(csvfile) : Len(csvfile[j]) < 2

----------------------------------------------------------------------------
(* Properties *)

\* C1: a record of Pipeline B whose lookup key is in the rename table is
\* emitted with the description "<original identifier> <original
\* description>", range suffix included, and with the table's value for the
\* key as its identifier.
C1_HitPath ==
    \A k \in 1..Len(out) :
        LET key == UpTo(Input(k).id, { "/" })
        IN  key \in DOMAIN new_names =>
              /\ out[k].description
                   = Input(k).id \o << " " >> \o Input(k).description
              /\ out[k].id = new_names[key]

C1_Witness ==
    /\ prog = "B" /\ pc = "done" /\ Len(out) >= 1
    /\ Has(Input(1).id, "/")
    /\ Input(1).description # Input(1).id
    /\ UpTo(Input(1).id, { "/" }) \in DOMAIN new_names

\* C2: no value of the rename table contains a whitespace character, space
\* or tab, and no relabeled record has one in its identifier.
C2_NoWhitespace ==
    /\ \A key \in DOMAIN new_names :
          \A n \in 1..Len(new_names[key]) : new_names[key][n] \notin WS
    /\ \A k \in 1..Len(out) :
          out[k].id # Input(k).id =>
              \A n \in 1..Len(out[k].id) : out[k].id[n] \notin WS

\* C3, as claimed: when a record's description has no "GN=", the run
\* gives no record an identifier and writes no output.
C3_MissingMarkerFails ==
    (\E k \in 1..Len(fasta) : MarkerPlaces(Input(k).description) = { })
        => (i = 0 /\ out = << >> /\ pc # "done")

\* C3, amended: a record whose description has no "GN=" gets the text of
\* its description before the first space (the whole description when it
\* has no space) as identifier and is written with it; the run is never in
\* an error state.
C3_MissingMarkerToken ==
    /\ \A k \in 1..Len(out) :
          MarkerPlaces(Input(k).description) = { } =>
              out[k].id = UpTo(Input(k).description, { " " })
    /\ pc # "error"
    /\ pc = "done" => Len(out) = Len(fasta)

C3_Witness ==
    /\ prog = "A" /\ pc = "done" /\ Len(out) = 1
    /\ MarkerPlaces(Input(1).description) = { }
    /\ Has(Input(1).description, " ")
    /\ out[1].id # << >>
    /\ out[1].id # Input(1).id

\* C4, as claimed: with "GN=" in the description the new identifier is the
\* text after the last "GN=" up to the first whitespace character, space
\* or tab.
C4_TokenToWhitespace ==
    \A k \in 1..Len(out) :
        MarkerPlaces(Input(k).description) # { } =>
            out[k].id = UpTo(AfterLast(Input(k).description), WS)

\* C4, amended: with "GN=" in the description the new identifier is the
\* text after the last "GN=" up to the first space, or to the end of the
\* description.
C4_TokenToSpace ==
    \A k \in 1..Len(out) :
        MarkerPlaces(Input(k).description) # { } =>
            out[k].id = UpTo(AfterLast(Input(k).description), { " " })

C4_Witness ==
    /\ prog = "A" /\ pc = "done" /\ Len(out) = 1
    /\ Cardinality(MarkerPlaces(Input(1).description)) >= 2
    /\ out[1].id # << >>
    /\ out[1].id # AfterLast(Input(1).description)

\* C5: a record of Pipeline B whose lookup key is not in the rename table
\* is emitted with the identifier and the description it came with, range
\* suffix included.
C5_MissPath ==
    \A k \in 1..Len(out) :
        UpTo(Input(k).id, { "/" }) \notin DOMAIN new_names =>
            /\ out[k].id = Input(k).id
            /\ out[k].description = Input(k).description

C5_Witness ==
    /\ prog = "B" /\ pc = "done" /\ Len(out) >= 1
    /\ Has(Input(1).id, "/")
    /\ DOMAIN new_names # { }
    /\ UpTo(Input(1).id, { "/" }) \notin DOMAIN new_names

\* C6: the key looked up is the identifier up to its first "/", the whole
\* identifier when it has none; the record is relabeled exactly when that
\* key is in the table, and a key of the table that contains "/" is never
\* the key looked up.
C6_LookupKey ==
    pc = "B_yield" =>
        LET key == UpTo(Input(nread).id, { "/" })
        IN  /\ seqid = << key >>
            /\ (record[1] # Input(nread)) <=> (key \in DOMAIN new_names)
            /\ \A t \in DOMAIN new_names : Has(t, "/") => t # seqid[1]

C6_Witness ==
    /\ pc = "B_yield"
    /\ Has(Input(nread).id, "/")
    /\ Input(nread).id \in DOMAIN new_names
    /\ record[1] = Input(nread)

\* C7: a completed run of either pipeline has emitted as many records as
\* the input holds, the k-th with the sequence data of the k-th input
\* record.
C7_OrderAndCount ==
    pc = "done" =>
        /\ Len(out) = Len(fasta)
        /\ \A k \in 1..Len(out) : out[k].seq = fasta[k].seq

C7_Witness ==
    /\ prog = "B" /\ pc = "done" /\ Len(out) >= 2
    /\ out[1].seq # out[2].seq
    /\ out[1].id = Input(1).id
    /\ out[2].id # Input(2).id

\* C8: with a data row of fewer than two fields in the rename-table file
\* the run never gets past the loading of the table, reads no FASTA record
\* and writes none, and the only state it stops in is the error state.
C8_MalformedRow ==
    Malformed =>
        /\ pc \in { "B_header", "B_rows", "error" }
        /\ nread = 0 /\ record = << >> /\ out = << >>
        /\ (~ ENABLED NextB) => pc = "error"

C8_Witness ==
    /\ pc = "error" /\ Malformed /\ rowpos >= 2 /\ Len(fasta) >= 1
    /\ DOMAIN new_names # { }

\* C9: the table holds exactly the keys of the data rows loaded, each with
\* the value, spaces underscored, of the last row of that key; the first
\* line gives no entry; once records are relabeled every row is loaded and
\* the table stays as it is.
C9_LastRowWins ==
    /\ DOMAIN new_names = { csvfile[j][1] : j \in Loaded }
    /\ \A key \in DOMAIN new_names :
          new_names[key] = Underscored(csvfile[LastRow(key)][2])
    /\ pc \in { "B_pull", "B_update", "B_yield", "done" }
          => rowpos = Len(csvfile)

C9_Witness ==
    /\ pc = "done" /\ Len(out) = 1 /\ out[1].id # Input(1).id
    /\ Len(csvfile) = 3
    /\ Len(csvfile[1]) = 2
    /\ csvfile[1][1] \notin DOMAIN new_names
    /\ csvfile[2][1] = csvfile[3][1]
    /\ Underscored(csvfile[2][2]) # Underscored(csvfile[3][2])

\* C10: Pipeline B never has more than one record read and not yet
\* written, so record k+1 is not read before record k is written; Pipeline
\* A has read every record before it renames or writes one.
C10_Streaming ==
    /\ prog = "B" => (Len(out) <= nread /\ nread <= Len(out) + 1)
    /\ prog = "A" => ((i > 0 \/ out # << >>) => nread = Len(fasta))

C10_Witness ==
    /\ prog = "B" /\ pc = "B_update"
    /\ nread = 2 /\ Len(out) = 1 /\ Len(fasta) = 3

====
